---- MODULE Spec2Model ----
(***************************************************************************)
(* Model of pyfuncs.hh: the two iterator adaptors `range` and `zip`, and   *)
(* the client code that drives them (construction, range-for loops built   *)
(* from begin() / end() / operator!= / operator* / operator++).            *)
(*                                                                         *)
(* std::size_t is modelled with its width scaled down: the values are      *)
(* 0 .. SIZE_MAX and arithmetic is modulo SIZE_MAX + 1.                    *)
(***************************************************************************)
EXTENDS Naturals, Sequences, FiniteSets, TLC

\* Largest value of the (scaled-down) std::size_t.
SIZE_MAX == 3

SizeT == 0 .. SIZE_MAX

\* Longest container the client builds.
MaxLen == 2

\* The range objects, the zip objects, the client's containers and the
\* for-loops of the client program.
RangeIds == {1, 2}
ZipIds == {1, 2}
ContIds == {1, 2}
LoopIds == {1, 2}

\* The argument lists zip is constructed with (references to containers).
ArgLists == {<<1>>, <<2>>, <<1, 2>>, <<2, 1>>}

\* The element the client stores at index i (0-based) of container c.
Elem(c, i) == 10 * c + i

\* What an out-of-bounds read returns when it does not crash: a value that
\* no container holds.
Indet == 10 * (Cardinality(ContIds) + 1)

\* A loop that never ends is followed for this many emitted values: one
\* more than any loop that ends emits.
MaxOut == MaxLen + 1

\* Most modifications the client makes to its containers and tuples.
MaxEdits == 2

\* What the client writes into a container or a tuple, and what it has
\* resize fill new elements with.
WriteVals == {7}

VARIABLES
    client,     \* which adaptor the client translation unit uses
    ndebug,     \* TRUE when the build defines NDEBUG (assert compiled out)
    status,     \* "running", "aborted" (failed assert) or "crashed"
    rng,        \* the range objects: their fields i_ and max_
    rloop,      \* the client's loops over range cursors
    cont,       \* the client's containers (std::vector), 1-based sequences
    zp,         \* the zip objects: their fields arrays_ and max_
    zloop,      \* the client's loops over zip cursors
    edits       \* how many times the client has modified a container or tuple

vars == <<client, ndebug, status, rng, rloop, cont, zp, zloop, edits>>
rangeVars == <<rng, rloop>>
zipVars == <<cont, zp, zloop, edits>>

----------------------------------------------------------------------------
(* class range                                                             *)

\* A slot that holds no range object yet.
NoRange == [live |-> FALSE, i_ |-> 0, max_ |-> 0]

\* range::range(i, max): the member initialisers.
RangeNew(i, max) == [live |-> TRUE, i_ |-> i, max_ |-> max]

\* range::range(max) delegates to range(0, max).
RangeNew1(max) == RangeNew(0, max)

\* assert(i <= max): aborts unless the build defines NDEBUG.
AssertFails(i, max) == ~ndebug /\ ~(i <= max)

\* range::Iterator::Iterator(i, max)
RangeIterator(i, max) == [i_ |-> i, max_ |-> max]

\* Mutant of RangeBegin: begin() starts at zero whatever i_ is.
RangeBegin_M(r) == RangeIterator(0, r.max_)

\* range::begin()
RangeBegin(r) == RangeIterator(r.i_, r.max_)

\* range::end()
RangeEnd(r) == RangeIterator(r.max_, r.max_)

\* Mutant of RangeIterNeq: the stored bound takes part in the comparison.
RangeIterNeq_M(a, b) == a.i_ # b.i_ \/ a.max_ # b.max_

\* range::Iterator::operator!=
RangeIterNeq(a, b) == a.i_ # b.i_

\* range::Iterator::operator*
RangeIterDeref(it) == it.i_

\* Mutant of RangeIterInc: the advance checks the bound and stops there.
RangeIterInc_M(it) ==
    IF it.i_ < it.max_ THEN [it EXCEPT !.i_ = it.i_ + 1] ELSE it

\* range::Iterator::operator++ : i_++ on an unsigned std::size_t.
RangeIterInc(it) == [it EXCEPT !.i_ = (it.i_ + 1) % (SIZE_MAX + 1)]

----------------------------------------------------------------------------
(* class zip                                                               *)

\* A slot that holds no zip object yet.
NoZip == [live |-> FALSE, arrays_ |-> <<>>, max_ |-> 0]

Min(a, b) == IF a <= b THEN a ELSE b

\* min_size(args...) of misc.hh: the smallest size() of the containers.
RECURSIVE min_size(_, _)
min_size(c, args) ==
    IF Len(args) = 1 THEN Len(c[args[1]])
    ELSE Min(Len(c[args[1]]), min_size(c, Tail(args)))

\* zip::zip(args...): arrays_ holds references to the containers (their
\* ids here), max_ the smallest size at this moment.
ZipNew(c, args) == [live |-> TRUE, arrays_ |-> args, max_ |-> min_size(c, args)]

\* zip::Iterator::Iterator(arrays, i): arrays_ is a reference to the zip
\* object's member arrays_, identified by the object that holds it.
ZipIterator(z, i) == [arrays_ |-> z, i_ |-> i]

\* zip::begin()
ZipBegin(z) == ZipIterator(z, 0)

\* Mutant of ZipEnd: end() measures the containers again at each call.
ZipEnd_M(z) == ZipIterator(z, min_size(cont, zp[z].arrays_))

\* zip::end()
ZipEnd(z) == ZipIterator(z, zp[z].max_)

\* Mutant of ZipIterNeq: the identity of arrays_ is not compared.
ZipIterNeq_M(a, b) == a.i_ # b.i_

\* zip::Iterator::operator!=
ZipIterNeq(a, b) == a.i_ # b.i_ \/ a.arrays_ # b.arrays_

\* std::get<M>(arrays_)[i_]: unchecked std::vector::operator[]; reading at
\* or past size() is undefined, and yields Indet when it does not crash.
ReadAt(c, k, i) == IF i < Len(c[k]) THEN c[k][i + 1] ELSE Indet

\* Mutant of ZipGet: every component is read from the first container.
ZipGet_M(c, arrays, i, M) ==
    [k \in 1 .. Len(arrays) - M |-> ReadAt(c, arrays[1], i)]

\* zip::Iterator::get<M>(): the elements at i_ of containers M .. N - 1.
RECURSIVE ZipGet(_, _, _, _)
ZipGet(c, arrays, i, M) ==
    IF M = Len(arrays) - 1
    THEN <<ReadAt(c, arrays[M + 1], i)>>
    ELSE <<ReadAt(c, arrays[M + 1], i)>> \o ZipGet(c, arrays, i, M + 1)

\* zip::Iterator::operator*
ZipIterDeref(c, it) == ZipGet(c, zp[it.arrays_].arrays_, it.i_, 0)

\* Whether operator* reads inside every container.
InBounds(c, it) ==
    \A k \in 1 .. Len(zp[it.arrays_].arrays_) :
        it.i_ < Len(c[zp[it.arrays_].arrays_[k]])

\* Mutant of ZipIterInc: the advance skips a position.
ZipIterInc_M(it) == [it EXCEPT !.i_ = (it.i_ + 2) % (SIZE_MAX + 1)]

\* zip::Iterator::operator++ : i_++ on an unsigned std::size_t.
ZipIterInc(it) == [it EXCEPT !.i_ = (it.i_ + 1) % (SIZE_MAX + 1)]

----------------------------------------------------------------------------
(* The client: for (it = b.begin(); it != e.end(); ++it) emit *it          *)

IdleRLoop == [pc |-> "idle", b |-> 0, e |-> 0,
              it |-> RangeIterator(0, 0), out |-> <<>>]

IdleZLoop == [pc |-> "idle", b |-> 0, e |-> 0,
              it |-> ZipIterator(0, 0), out |-> <<>>]

\* A container of n elements as the client fills it.
Filled(c, n) == [k \in 1 .. n |-> Elem(c, k - 1)]

\* The client uses one of the two adaptors (they are independent); assert
\* occurs in range only, so the build matters there only.
Init ==
    /\ status = "running"
    /\ rng = [r \in RangeIds |-> NoRange]
    /\ rloop = [l \in LoopIds |-> IdleRLoop]
    /\ zp = [z \in ZipIds |-> NoZip]
    /\ zloop = [l \in LoopIds |-> IdleZLoop]
    /\ edits = 0
    /\ \/ /\ client = "range"
          /\ ndebug \in BOOLEAN
          /\ cont = [c \in ContIds |-> <<>>]
       \/ /\ client = "zip"
          /\ ndebug = FALSE
          /\ \E len \in [ContIds -> 0 .. MaxLen] :
                cont = [c \in ContIds |-> Filled(c, len[c])]

\* range r(i, max);
RangeCtor(r, i, max) ==
    /\ status = "running" /\ client = "range"
    /\ ~rng[r].live
    /\ IF AssertFails(i, max)
       THEN /\ status' = "aborted"
            /\ UNCHANGED rng
       ELSE /\ rng' = [rng EXCEPT ![r] = RangeNew(i, max)]
            /\ UNCHANGED status
    /\ UNCHANGED <<client, ndebug, rloop, zipVars>>

\* range r(max);
RangeCtor1(r, max) ==
    /\ status = "running" /\ client = "range"
    /\ ~rng[r].live
    /\ IF AssertFails(0, max)
       THEN /\ status' = "aborted"
            /\ UNCHANGED rng
       ELSE /\ rng' = [rng EXCEPT ![r] = RangeNew1(max)]
            /\ UNCHANGED status
    /\ UNCHANGED <<client, ndebug, rloop, zipVars>>

\* it = b.begin(), to be compared with e.end()
RLoopBegin(l, b, e) ==
    /\ status = "running" /\ client = "range"
    /\ rloop[l].pc = "idle"
    /\ rng[b].live /\ rng[e].live
    /\ rloop' = [rloop EXCEPT ![l] =
                    [pc |-> "test", b |-> b, e |-> e,
                     it |-> RangeBegin(rng[b]), out |-> <<>>]]
    /\ UNCHANGED <<client, ndebug, status, rng, zipVars>>

\* it != e.end() ? emit *it : leave the loop
RLoopTest(l) ==
    /\ status = "running" /\ client = "range"
    /\ rloop[l].pc = "test"
    /\ IF RangeIterNeq(rloop[l].it, RangeEnd(rng[rloop[l].e]))
       THEN rloop' = [rloop EXCEPT
                        ![l].out = Append(@, RangeIterDeref(rloop[l].it)),
                        ![l].pc = "incr"]
       ELSE rloop' = [rloop EXCEPT ![l].pc = "done"]
    /\ UNCHANGED <<client, ndebug, status, rng, zipVars>>

\* Mutant of RLoopIncr: the cursor shares its position with the range
\* object, so advancing it moves the object's start as well.
RLoopIncr_M(l) ==
    /\ status = "running" /\ client = "range"
    /\ rloop[l].pc = "incr"
    /\ rloop' = [rloop EXCEPT ![l].it = RangeIterInc(@), ![l].pc = "test"]
    /\ rng' = [rng EXCEPT ![rloop[l].b].i_ = RangeIterInc(rloop[l].it).i_]
    /\ UNCHANGED <<client, ndebug, status, zipVars>>

\* ++it
RLoopIncr(l) ==
    /\ status = "running" /\ client = "range"
    /\ rloop[l].pc = "incr"
    /\ rloop' = [rloop EXCEPT ![l].it = RangeIterInc(@), ![l].pc = "test"]
    /\ UNCHANGED <<client, ndebug, status, rng, zipVars>>

\* zip z(args...);
ZipCtor(z, args) ==
    /\ status = "running" /\ client = "zip"
    /\ ~zp[z].live
    /\ zp' = [zp EXCEPT ![z] = ZipNew(cont, args)]
    /\ UNCHANGED <<client, ndebug, status, rangeVars, cont, zloop, edits>>

\* zip z(y); the implicit copy constructor copies arrays_ and max_ into a
\* new object.
ZipCopy(z, y) ==
    /\ status = "running" /\ client = "zip"
    /\ ~zp[z].live /\ zp[y].live
    /\ zp' = [zp EXCEPT ![z] = zp[y]]
    /\ UNCHANGED <<client, ndebug, status, rangeVars, cont, zloop, edits>>

\* it = b.begin(), to be compared with e.end()
ZLoopBegin(l, b, e) ==
    /\ status = "running" /\ client = "zip"
    /\ zloop[l].pc = "idle"
    /\ zp[b].live /\ zp[e].live
    /\ zloop' = [zloop EXCEPT ![l] =
                    [pc |-> "test", b |-> b, e |-> e,
                     it |-> ZipBegin(b), out |-> <<>>]]
    /\ UNCHANGED <<client, ndebug, status, rangeVars, cont, zp, edits>>

\* The containers after operator* moved the elements at i out of the
\* containers arrays instead of copying them.
MovedFrom(c, arrays, i) ==
    [k \in DOMAIN c |->
        IF (\E j \in 1 .. Len(arrays) : arrays[j] = k) /\ i < Len(c[k])
        THEN [c[k] EXCEPT ![i + 1] = Indet]
        ELSE c[k]]

\* Mutant of ZLoopTest: operator* moves the elements out of the containers.
ZLoopTest_M(l) ==
    /\ status = "running" /\ client = "zip"
    /\ zloop[l].pc = "test"
    /\ Len(zloop[l].out) < MaxOut
    /\ IF ZipIterNeq(zloop[l].it, ZipEnd(zloop[l].e))
       THEN /\ zloop' = [zloop EXCEPT
                        ![l].out = Append(@, ZipIterDeref(cont, zloop[l].it)),
                        ![l].pc = "incr"]
            /\ cont' = MovedFrom(cont, zp[zloop[l].it.arrays_].arrays_,
                                 zloop[l].it.i_)
       ELSE /\ zloop' = [zloop EXCEPT ![l].pc = "done"]
            /\ UNCHANGED cont
    /\ UNCHANGED <<client, ndebug, status, rangeVars, zp, edits>>

\* it != e.end() ? emit *it : leave the loop
ZLoopTest(l) ==
    /\ status = "running" /\ client = "zip"
    /\ zloop[l].pc = "test"
    /\ Len(zloop[l].out) < MaxOut
    /\ IF ZipIterNeq(zloop[l].it, ZipEnd(zloop[l].e))
       THEN \/ /\ zloop' = [zloop EXCEPT
                        ![l].out = Append(@, ZipIterDeref(cont, zloop[l].it)),
                        ![l].pc = "incr"]
               /\ UNCHANGED status
            \/ /\ ~InBounds(cont, zloop[l].it)
               /\ status' = "crashed"
               /\ UNCHANGED zloop
       ELSE /\ zloop' = [zloop EXCEPT ![l].pc = "done"]
            /\ UNCHANGED status
    /\ UNCHANGED <<client, ndebug, rangeVars, cont, zp, edits>>

\* ++it
ZLoopIncr(l) ==
    /\ status = "running" /\ client = "zip"
    /\ zloop[l].pc = "incr"
    /\ zloop' = [zloop EXCEPT ![l].it = ZipIterInc(@), ![l].pc = "test"]
    /\ UNCHANGED <<client, ndebug, status, rangeVars, cont, zp, edits>>

\* c.resize(n, v): the caller resizes a container a zip may refer to.
Resize(c, n, v) ==
    /\ status = "running" /\ client = "zip"
    /\ edits < MaxEdits
    /\ n # Len(cont[c])
    /\ cont' = [cont EXCEPT ![c] =
                    [k \in 1 .. n |-> IF k <= Len(@) THEN @[k] ELSE v]]
    /\ edits' = edits + 1
    /\ UNCHANGED <<client, ndebug, status, rangeVars, zp, zloop>>

\* c[p] = v: the caller overwrites an element (p is 0-based).
Overwrite(c, p, v) ==
    /\ status = "running" /\ client = "zip"
    /\ edits < MaxEdits
    /\ p < Len(cont[c])
    /\ cont' = [cont EXCEPT ![c][p + 1] = v]
    /\ edits' = edits + 1
    /\ UNCHANGED <<client, ndebug, status, rangeVars, zp, zloop>>

\* std::get<k>(t) = v on the j-th tuple that operator* returned to loop l.
WriteTuple(l, j, k, v) ==
    /\ status = "running" /\ client = "zip"
    /\ edits < MaxEdits
    /\ j \in 1 .. Len(zloop[l].out)
    /\ k \in 1 .. Len(zloop[l].out[j])
    /\ zloop' = [zloop EXCEPT ![l].out[j][k] = v]
    /\ edits' = edits + 1
    /\ UNCHANGED <<client, ndebug, status, rangeVars, zp, cont>>

\* The steps of a client of range.
NextRange ==
    \/ \E r \in RangeIds, i \in SizeT, max \in SizeT : RangeCtor(r, i, max)
    \/ \E r \in RangeIds, max \in SizeT : RangeCtor1(r, max)
    \/ \E l \in LoopIds, b \in RangeIds, e \in RangeIds : RLoopBegin(l, b, e)
    \/ \E l \in LoopIds : RLoopTest(l)
    \/ \E l \in LoopIds : RLoopIncr(l)

\* The steps of a client of zip that leaves its containers alone.
NextZip ==
    \/ \E z \in ZipIds, args \in ArgLists : ZipCtor(z, args)
    \/ \E z \in ZipIds, y \in ZipIds : ZipCopy(z, y)
    \/ \E l \in LoopIds, b \in ZipIds, e \in ZipIds : ZLoopBegin(l, b, e)
    \/ \E l \in LoopIds : ZLoopTest(l)
    \/ \E l \in LoopIds : ZLoopIncr(l)

Next == NextRange \/ NextZip

Spec == Init /\ [][Next]_vars

\* The client of zip.
InitZip == Init /\ client = "zip"

\* The client with one zip object and one loop over it, which also
\* modifies its containers and the tuples it obtained.

NextMut ==
    \/ \E args \in ArgLists : ZipCtor(1, args)
    \/ ZLoopBegin(1, 1, 1)
    \/ ZLoopTest(1)
    \/ ZLoopIncr(1)
    \/ \E c \in ContIds, n \in 0 .. MaxLen, v \in WriteVals : Resize(c, n, v)
    \/ \E c \in ContIds, p \in 0 .. MaxLen - 1, v \in WriteVals :
            Overwrite(c, p, v)
    \/ \E j \in 1 .. MaxLen, k \in 1 .. 2, v \in WriteVals :
            WriteTuple(1, j, k, v)

SpecMut == InitZip /\ [][NextMut]_vars

\* A running loop takes its next step: the client is sequential code that
\* does not stop between the test, the body and the increment.
FairSpec ==
    /\ InitZip /\ [][NextZip]_vars
    /\ \A l \in LoopIds : WF_vars(ZLoopTest(l)) /\ WF_vars(ZLoopIncr(l))

----------------------------------------------------------------------------
(* Claims                                                                  *)

\* The ascending integers a, a + 1, ..., b - 1 (none when a = b).
Ascending(a, b) == [k \in 1 .. (b - a) |-> a + k - 1]

\* A loop from r.begin() to r.end() of one range object with i_ <= max_.
OwnValidRLoop(l) ==
    /\ rloop[l].pc # "idle"
    /\ rloop[l].b = rloop[l].e
    /\ rng[rloop[l].b].i_ <= rng[rloop[l].b].max_

\* C1: for 0 <= start <= end, the loop from begin() to end() of
\* range(start, end) emits exactly start, start + 1, ..., end - 1, each once
\* and in order (end - start values; nothing when start = end): what has
\* been emitted is always that sequence up to the cursor, and the loop
\* ends with the cursor at end and the whole sequence emitted.
C1_RangeEmitsAscending ==
    \A l \in LoopIds :
        OwnValidRLoop(l) =>
            LET r == rng[rloop[l].b]
                p == rloop[l].it.i_
            IN  /\ r.i_ <= p /\ p <= r.max_
                /\ rloop[l].pc = "test" => rloop[l].out = Ascending(r.i_, p)
                /\ rloop[l].pc = "incr" =>
                        /\ p < r.max_
                        /\ rloop[l].out = Ascending(r.i_, p + 1)
                /\ rloop[l].pc = "done" =>
                        /\ p = r.max_
                        /\ rloop[l].out = Ascending(r.i_, r.max_)
                        /\ Len(rloop[l].out) = r.max_ - r.i_

\* C1 witness: a finished loop over range(start, end) with 0 < start and
\* start + 1 < end, so at least two values were emitted.
C1_Witness ==
    \E l \in LoopIds :
        /\ OwnValidRLoop(l) /\ rloop[l].pc = "done"
        /\ rng[rloop[l].b].i_ > 0
        /\ Len(rloop[l].out) >= 2

\* C3 (as claimed): constructing range(start, end) with start > end always
\* aborts at construction, so no range object with start > end exists and
\* no loop ever runs on one.
C3_InvalidRangeAborts ==
    /\ \A r \in RangeIds : rng[r].live => rng[r].i_ <= rng[r].max_
    /\ \A l \in LoopIds :
          rloop[l].pc # "idle" => rng[rloop[l].b].i_ <= rng[rloop[l].b].max_

\* C7: two range cursors are unequal exactly when their positions differ,
\* whatever their stored bounds and whichever objects they come from: a
\* loop that compares a cursor of one range with end() of any range goes on
\* while the positions differ and ends as soon as they are equal.
C7_RangeNeqIsPosition ==
    \A l \in LoopIds :
        /\ rloop[l].pc = "incr" => rloop[l].it.i_ # rng[rloop[l].e].max_
        /\ rloop[l].pc = "done" => rloop[l].it.i_ = rng[rloop[l].e].max_

\* C7 witness: a cursor of one range compared equal to end() of another
\* range whose bound differs from the cursor's stored bound.
C7_Witness ==
    \E l \in LoopIds :
        /\ rloop[l].pc = "done"
        /\ rloop[l].b # rloop[l].e
        /\ rloop[l].it.max_ # rng[rloop[l].e].max_
        /\ Len(rloop[l].out) > 0

\* The smallest current length among the containers named by args.
MinLen(args) ==
    LET lens == {Len(cont[args[k]]) : k \in 1 .. Len(args)}
    IN  CHOOSE m \in lens : \A n \in lens : m <= n

\* The tuple of the elements at index i (0-based) of the containers args.
TupleAt(args, i) == [k \in 1 .. Len(args) |-> cont[args[k]][i + 1]]

\* The first n tuples of the containers args.
Zipped(args, n) == [j \in 1 .. n |-> TupleAt(args, j - 1)]

\* A loop from z.begin() to z.end() of one zip object.
OwnZLoop(l) == zloop[l].pc # "idle" /\ zloop[l].b = zloop[l].e

\* C2: the loop from begin() to end() of zip(c_0, ..., c_{N-1}) emits
\* exactly limit = min(L_0, ..., L_{N-1}) tuples, the i-th being
\* (c_0[i], ..., c_{N-1}[i]) in declaration order; it never dereferences at
\* an index >= limit, and emits nothing when some container is empty.
C2_ZipEmitsPrefixTuples ==
    \A l \in LoopIds :
        OwnZLoop(l) =>
            LET args == zp[zloop[l].b].arrays_
                limit == MinLen(args)
                p == zloop[l].it.i_
            IN  /\ p <= limit
                /\ zloop[l].pc = "test" => zloop[l].out = Zipped(args, p)
                /\ zloop[l].pc = "incr" =>
                        /\ p < limit
                        /\ zloop[l].out = Zipped(args, p + 1)
                /\ zloop[l].pc = "done" =>
                        /\ zloop[l].out = Zipped(args, limit)
                        /\ Len(zloop[l].out) = limit
                        /\ (\E k \in 1 .. Len(args) : cont[args[k]] = <<>>)
                                => zloop[l].out = <<>>

\* C2 witness: a finished loop over two different containers of different
\* lengths that emitted as many tuples as the shorter one holds, at least
\* one.
C2_Witness ==
    \E l \in LoopIds :
        /\ OwnZLoop(l) /\ zloop[l].pc = "done"
        /\ LET args == zp[zloop[l].b].arrays_
           IN  /\ Len(args) = 2
               /\ Len(cont[args[1]]) > Len(cont[args[2]])
               /\ Len(zloop[l].out) = Len(cont[args[2]])
        /\ Len(zloop[l].out) >= 1

\* C6: two zip cursors compare equal exactly when they come from the same
\* zip object and have the same position: a loop ends only on end() of the
\* object its cursor came from and at the position of that end(), and a
\* cursor compared with end() of another object (a copy, or a zip of the
\* very same containers) is unequal at every position.
C6_ZipEqualIsSameObjectSamePosition ==
    \A l \in LoopIds :
        /\ zloop[l].pc = "done" =>
                /\ zloop[l].b = zloop[l].e
                /\ zloop[l].it.i_ = zp[zloop[l].e].max_
        /\ zloop[l].pc = "incr" =>
                \/ zloop[l].b # zloop[l].e
                \/ zloop[l].it.i_ # zp[zloop[l].e].max_
        /\ zloop[l].pc # "idle" => zloop[l].it.arrays_ = zloop[l].b

\* C6 witness: a cursor of one zip object was compared with end() of
\* another object with the same containers and limit, at the position of
\* that end(), and the loop went on.
C6_Witness ==
    \E l \in LoopIds :
        /\ zloop[l].pc = "incr"
        /\ zloop[l].b # zloop[l].e
        /\ zp[zloop[l].b] = zp[zloop[l].e]
        /\ zloop[l].it.i_ = zp[zloop[l].e].max_

\* C10 (as claimed), on ranges that passed the assert: advancing a range
\* cursor increments its position by exactly one, with no wraparound, at
\* every position including the largest.
C10_AdvanceNeverWraps ==
    [][~ndebug =>
        \A l \in LoopIds :
            (rloop[l].pc = "incr" /\ rloop'[l].pc = "test") =>
                rloop'[l].it.i_ = rloop[l].it.i_ + 1]_vars

\* C10 (amended): advancing a range cursor adds one to its position modulo
\* SIZE_MAX + 1: below the largest value the position grows by exactly
\* one, at the largest value it wraps to zero; the stored bound is kept and
\* is not consulted, so a cursor at or past its bound advances like any
\* other.
C10_AdvanceIsModularIncrement ==
    [][\A l \in LoopIds :
          (rloop[l].pc = "incr" /\ rloop'[l].pc = "test") =>
              /\ rloop[l].it.i_ < SIZE_MAX =>
                      rloop'[l].it.i_ = rloop[l].it.i_ + 1
              /\ rloop[l].it.i_ = SIZE_MAX => rloop'[l].it.i_ = 0
              /\ rloop'[l].it.max_ = rloop[l].it.max_]_vars

\* C10 witness: a cursor that was advanced at the largest position, past
\* its own bound, and is now at zero.
C10_Witness ==
    \E l \in LoopIds :
        /\ rloop[l].pc = "test"
        /\ Len(rloop[l].out) > 0
        /\ rloop[l].out[Len(rloop[l].out)] = SIZE_MAX
        /\ rloop[l].it.i_ = 0
        /\ rloop[l].it.max_ < SIZE_MAX

IsPrefix(s, t) == Len(s) <= Len(t) /\ s = SubSeq(t, 1, Len(s))

\* Outputs of two passes over one object: the shorter is the beginning of
\* the longer, and two finished passes emitted the same.
SamePass(pcl, outl, pcm, outm) ==
    /\ IsPrefix(outl, outm) \/ IsPrefix(outm, outl)
    /\ (pcl = "done" /\ pcm = "done") => outl = outm

\* Any two passes over one range object, and over one zip object, agree.
C4_PassesAgree ==
    \A l, m \in LoopIds :
        /\ (/\ rloop[l].pc # "idle" /\ rloop[m].pc # "idle"
            /\ rloop[l].b = rloop[l].e /\ rloop[m].b = rloop[m].e
            /\ rloop[l].b = rloop[m].b)
              => SamePass(rloop[l].pc, rloop[l].out, rloop[m].pc, rloop[m].out)
        /\ (OwnZLoop(l) /\ OwnZLoop(m) /\ zloop[l].b = zloop[m].b)
              => SamePass(zloop[l].pc, zloop[l].out, zloop[m].pc, zloop[m].out)

\* A step that changes the cursor or output of one loop changes no object,
\* no container and no other loop.
C4_CursorStepFrame ==
    \A l \in LoopIds :
        /\ rloop'[l] # rloop[l] =>
                /\ rng' = rng
                /\ \A m \in LoopIds \ {l} : rloop'[m] = rloop[m]
        /\ zloop'[l] # zloop[l] =>
                /\ zp' = zp /\ cont' = cont
                /\ \A m \in LoopIds \ {l} : zloop'[m] = zloop[m]

\* C4: restartability. Any two begin()-to-end() passes over the same range
\* object, or over the same zip object with its containers unmodified, run
\* one after the other or with their steps interleaved, emit the same
\* sequence (at every moment one output is the beginning of the other, and
\* two finished passes are equal); a step of one cursor changes neither the
\* object (start, end, limit, containers) nor any other cursor.
C4_Restartable == []C4_PassesAgree /\ [][C4_CursorStepFrame]_vars

\* C4 witness: two finished passes over the same range object, each of at
\* least two values.
C4_Witness ==
    \E l, m \in LoopIds :
        /\ l # m
        /\ rloop[l].pc = "done" /\ rloop[m].pc = "done"
        /\ rloop[l].b = rloop[l].e /\ rloop[m].b = rloop[m].e
        /\ rloop[l].b = rloop[m].b
        /\ Len(rloop[l].out) >= 2 /\ rloop[m].out = rloop[l].out

\* An unfinished loop from z.begin() to z.end() of one zip object.
OwnZLoopRunning(l) == OwnZLoop(l) /\ zloop[l].pc \in {"test", "incr"}

\* The positions of a loop over one zip object: at most limit, below it
\* whenever the test passed, at it when the loop has ended.
C5_ZipLoopPositions ==
    \A l \in LoopIds :
        OwnZLoop(l) =>
            LET limit == zp[zloop[l].b].max_
            IN  /\ zloop[l].it.i_ <= limit
                /\ zloop[l].pc = "incr" => zloop[l].it.i_ < limit
                /\ zloop[l].pc = "done" =>
                        /\ zloop[l].it.i_ = limit
                        /\ Len(zloop[l].out) = limit
                /\ zloop[l].pc = "test" => Len(zloop[l].out) = zloop[l].it.i_

\* C5: the loop from z.begin() to z.end() of one zip object always
\* terminates (unless the process dies first), and exactly when the
\* position first equals limit, after limit advances: the test against
\* end() passes at every position below limit, where the position is
\* advanced once per emitted tuple, and fails at limit.
C5_ZipLoopTerminatesAtLimit ==
    /\ []C5_ZipLoopPositions
    /\ \A l \in LoopIds :
          OwnZLoopRunning(l) ~> (zloop[l].pc = "done" \/ status = "crashed")

\* C5 witness: a loop over one zip object ended after two advances, with
\* the process still running.
C5_Witness ==
    \E l \in LoopIds :
        /\ OwnZLoop(l) /\ zloop[l].pc = "done" /\ status = "running"
        /\ zloop[l].it.i_ = 2
        /\ zp[zloop[l].b].max_ = 2

\* C8: the limit of a zip object is computed once, at construction, as the
\* minimum container length of that moment, and no later step changes it,
\* whether begin(), end(), an advance, a dereference or a caller-side
\* resize of a container: end() keeps returning a cursor at that limit,
\* not at the current minimum length.
C8_LimitFixedAtConstruction ==
    [][\A z \in ZipIds :
          /\ zp[z].live =>
                /\ zp'[z] = zp[z]
                /\ (ZipEnd(z))' = ZipEnd(z)
          /\ (~zp[z].live /\ zp'[z].live) =>
                /\ zp'[z].max_ = MinLen(zp'[z].arrays_)
                /\ (ZipEnd(z))'.i_ = zp'[z].max_]_vars

\* C8 witness: after a container was shortened below the limit, a loop ran
\* up to end() at the construction-time limit (reading out of bounds on
\* the way) and ended there.
C8_Witness ==
    \E l \in LoopIds :
        /\ OwnZLoop(l) /\ zloop[l].pc = "done"
        /\ zloop[l].it.i_ = zp[zloop[l].b].max_
        /\ MinLen(zp[zloop[l].b].arrays_) < zp[zloop[l].b].max_
        /\ \E j \in 1 .. Len(zloop[l].out) :
              \E k \in 1 .. Len(zloop[l].out[j]) : zloop[l].out[j][k] = Indet

\* C9: operator* returns a tuple of copies that shares no storage with the
\* containers: a step of a loop (comparison, dereference, advance) or a
\* write into an obtained tuple leaves every container's contents and
\* length unchanged, and a write into a container or a resize leaves every
\* tuple obtained before unchanged.
C9_TuplesAreCopies ==
    [][/\ zloop' # zloop => cont' = cont
       /\ cont' # cont => zloop' = zloop]_vars

\* C9 witness: a tuple obtained at position p still holds the element it
\* copied although the caller has since overwritten that element of the
\* container.
C9_Witness ==
    \E l \in LoopIds :
        /\ OwnZLoop(l)
        /\ \E j \in 1 .. Len(zloop[l].out) :
              \E k \in 1 .. Len(zloop[l].out[j]) :
                 LET c == zp[zloop[l].b].arrays_[k]
                 IN  /\ j <= Len(cont[c])
                     /\ zloop[l].out[j][k] = Elem(c, j - 1)
                     /\ cont[c][j] \in WriteVals

====
